---- MODULE Spec2Model ----
(***************************************************************************)
(* Model of src/src/media/newApi.ts (playStream) and of the AudioStream    *)
(* class (src/unnamed/part_000).                                           *)
(*                                                                         *)
(* JavaScript numbers are records [kind, val]: kind "num" carries a finite *)
(* value in val, kind "inf" carries the sign in val, kinds "nan" and       *)
(* "undefined" carry 0.  Volumes are counted in units of 1/VolScale.       *)
(***************************************************************************)
EXTENDS Integers, Sequences, FiniteSets, TLC

\* ------------------------------------------------------------- bounds
MaxBurst == 1        \* largest finite readrateInitialBurst offered (seconds)
MaxPtsStep == 3      \* 'pts' notifications carry k * 500 ms, k in 0..MaxPtsStep
MaxVolOver == 1      \* how far past 2.0 the setVolume arguments go (in 1/VolScale)
VolScale == 2        \* volumes are counted in units of 1/VolScale

\* ------------------------------------------------- JavaScript numbers
Num(n) == [kind |-> "num", val |-> n]
NaN == [kind |-> "nan", val |-> 0]
PosInf == [kind |-> "inf", val |-> 1]
NegInf == [kind |-> "inf", val |-> -1]
Undefined == [kind |-> "undefined", val |-> 0]

\* a < b on numbers: false whenever an operand is NaN
JsLt(a, b) ==
    CASE a.kind = "nan" \/ b.kind = "nan" -> FALSE
      [] a.kind = "undefined" \/ b.kind = "undefined" -> FALSE
      [] a.kind = "num" /\ b.kind = "num" -> a.val < b.val
      [] a.kind = "inf" /\ b.kind = "inf" -> a.val < b.val
      [] a.kind = "inf" -> a.val < 0
      [] OTHER -> b.val > 0

JsGt(a, b) == JsLt(b, a)

\* Math.min(a, b): NaN if either operand is NaN
JsMin(a, b) ==
    IF a.kind = "nan" \/ b.kind = "nan" THEN NaN
    ELSE IF JsLt(b, a) THEN b ELSE a

BurstValues == {Undefined, NaN, PosInf} \cup {Num(n) : n \in -1..MaxBurst}
PtsValues == {k * 500 : k \in 0..MaxPtsStep}
Volumes == {NaN, PosInf, NegInf} \cup {Num(n) : n \in -1..(2 * VolScale + MaxVolOver)}
Errors == {"E1", "E2"}

\* the 16-bit signed sample range of readInt16LE / writeInt16LE
Int16Min == -32768
Int16Max == 32767

\* an audio frame: its payload, stood for by one decoded PCM sample, and its
\* frametime; Frames are the frames offered to the AudioStream
Samples == {Int16Min, -16385, -1, 0, 1, 16384, Int16Max}
FrameTimes == {20, 40}
Frames == [sample : Samples, frametime : FrameTimes]
SessionFrames == {[sample |-> 1, frametime |-> 20]}
Reason == "AbortError"

\* -------------------------------------------------------------- state
VARIABLES
    options,        \* the caller's options: readrateInitialBurst, streamPreview, type, initialMuted
    hasSignal,      \* a cancelSignal was passed
    aborted,        \* cancelSignal.aborted
    voiceConnection,\* streamer.voiceConnection is set
    existingUdp,    \* an existing transport was passed
    demuxed,        \* what demux(input) yields: [video, audio]
    pc,             \* where playStream is: idle, demux, createStream, delay, playing, failed
    thrown,         \* the error playStream rejected with
    calls,          \* the calls made on the streamer and the transport, in order
    cleanupFuncs,   \* the registered cleanup actions, in order
    cleanupRuns,    \* how often each cleanup action was executed
    cleanedUp,      \* the cleanedUp flag of cleanup()
    streamPromise,  \* the promise the handlers resolve or reject
    listeners,      \* which listeners are attached
    vStream,        \* the VideoStream
    aStream,        \* the AudioStream (audioStreamInstance)
    burstReached,   \* a 'pts' notification at or past the burst threshold was emitted
    preview,        \* the stream preview: state of createDecoder, decoder freed
    lastFrame,      \* what the last AudioStream._sendFrame call did
    ffmpeg          \* the command prepareStream built: process, promise, 'abort' listener

vars == <<options, hasSignal, aborted, voiceConnection, existingUdp, demuxed, pc,
          thrown, calls, cleanupFuncs, cleanupRuns, cleanedUp, streamPromise,
          listeners, vStream, aStream, burstReached, preview, lastFrame, ffmpeg>>

configVars == <<options, hasSignal, voiceConnection, existingUdp, demuxed>>

CleanupNames == {"stopTransport", "freeDecoder", "offData"}

Pending == [status |-> "pending", value |-> "none"]
NoPromise == [status |-> "none", value |-> "none"]

NoStream == [exists |-> FALSE, sync |-> TRUE, noSleep |-> FALSE, syncStream |-> "none",
             state |-> "Active", error |-> "none", live |-> FALSE]
NoAudio == [exists |-> FALSE, noSleep |-> FALSE, syncStream |-> "none",
            isMuted |-> FALSE, volume |-> Num(VolScale),
            state |-> "Active", error |-> "none", live |-> FALSE]
NoPayload == [kind |-> "none", sample |-> 0]
NoFrame == [sent |-> FALSE, wasMuted |-> FALSE, volume |-> Num(VolScale),
            frame |-> [sample |-> 0, frametime |-> 0], decodeOk |-> TRUE, encodeOk |-> TRUE,
            sendOk |-> TRUE,
            sends |-> 0, payload |-> NoPayload, frametime |-> 0,
            decodes |-> 0, encodes |-> 0, failed |-> FALSE]

\* prepareStream not yet called: no ffmpeg process, no promise, no listener;
\* entered, abortedAtEntry and event record the call and the process's last event
NoCommand == [state |-> "none", thrown |-> "none", promise |-> NoPromise,
              abortListener |-> FALSE, sigterm |-> 0,
              entered |-> FALSE, abortedAtEntry |-> FALSE,
              event |-> [kind |-> "none", err |-> "none", aborted |-> FALSE]]

Range(s) == {s[i] : i \in DOMAIN s}

Init ==
    /\ options \in [readrateInitialBurst : BurstValues, streamPreview : BOOLEAN,
                    type : {"go-live", "camera"}, initialMuted : BOOLEAN]
    /\ hasSignal \in BOOLEAN
    /\ aborted = FALSE
    /\ voiceConnection \in BOOLEAN
    /\ existingUdp \in BOOLEAN
    /\ demuxed \in {[video |-> TRUE, audio |-> TRUE], [video |-> TRUE, audio |-> FALSE],
                    [video |-> FALSE, audio |-> TRUE]}
    /\ pc = "idle"
    /\ thrown = "none"
    /\ calls = <<>>
    /\ cleanupFuncs = <<>>
    /\ cleanupRuns = [f \in CleanupNames |-> 0]
    /\ cleanedUp = FALSE
    /\ streamPromise = NoPromise
    /\ listeners = [abort |-> FALSE, finish |-> FALSE, verror |-> FALSE, aerror |-> FALSE,
                    pts |-> FALSE, data |-> FALSE]
    /\ vStream = NoStream
    /\ aStream = NoAudio
    /\ burstReached = FALSE
    /\ preview = [state |-> "off", freed |-> FALSE]
    /\ lastFrame = NoFrame
    /\ ffmpeg = NoCommand

\* ------------------------------------------------------- option merge
\* utils.isFiniteNonZero: a number that is finite and not zero
isFiniteNonZero(n) == n.kind = "num" /\ n.val # 0

mergeOptions_Mutant(opts) ==
    [readrateInitialBurst |->
        IF opts.readrateInitialBurst.kind = "num" /\ opts.readrateInitialBurst.val >= 0
            THEN opts.readrateInitialBurst
            ELSE Undefined,
     streamPreview |-> opts.streamPreview,
     type |-> opts.type,
     initialMuted |-> opts.initialMuted]

mergeOptions(opts) ==
    [readrateInitialBurst |->
        IF isFiniteNonZero(opts.readrateInitialBurst)
           /\ JsGt(opts.readrateInitialBurst, Num(0))
            THEN opts.readrateInitialBurst
            ELSE Undefined,
     streamPreview |-> opts.streamPreview,
     type |-> opts.type,
     initialMuted |-> opts.initialMuted]

mergedOptions == mergeOptions(options)

\* burstTime and the test `typeof burstTime === "number"`, inside `if (audio)`
burstTime == mergedOptions.readrateInitialBurst
burstArmed == demuxed.audio /\ burstTime.kind # "undefined"

\* burstTime * 1000, the threshold in the unit of 'pts'
burstThreshold == burstTime.val * 1000

\* --------------------------------------------------- playStream, setup
Fail(err) ==
    /\ pc' = "failed"
    /\ thrown' = err

\* cancelSignal?.throwIfAborted(); the voice connection test; demux is started
PlayStreamEnter ==
    /\ pc = "idle"
    /\ IF hasSignal /\ aborted THEN Fail(Reason)
       ELSE IF ~voiceConnection THEN Fail("NotConnected")
       ELSE pc' = "demux" /\ thrown' = thrown
    /\ UNCHANGED <<configVars, aborted, calls, cleanupFuncs, cleanupRuns, cleanedUp,
                   streamPromise, listeners, vStream, aStream, burstReached, preview, lastFrame, ffmpeg>>

\* demux resolves: the second abort test, the video test, the transport request
DemuxResolved_Mutant ==
    /\ pc = "demux"
    /\ IF hasSignal /\ aborted THEN Fail(Reason) /\ calls' = calls
       ELSE IF ~existingUdp
            THEN /\ calls' = Append(calls, "createStream")
                 /\ IF demuxed.video THEN pc' = "createStream" /\ thrown' = thrown
                    ELSE Fail("NoVideo")
            ELSE /\ calls' = calls \o <<"setSpeaking(false)", "setVideoAttributes(false)">>
                 /\ IF demuxed.video THEN pc' = "delay" /\ thrown' = thrown
                    ELSE Fail("NoVideo")
    /\ UNCHANGED <<configVars, aborted, cleanupFuncs, cleanupRuns, cleanedUp,
                   streamPromise, listeners, vStream, aStream, burstReached, preview, lastFrame, ffmpeg>>

DemuxResolved ==
    /\ pc = "demux"
    /\ IF hasSignal /\ aborted THEN Fail(Reason) /\ calls' = calls
       ELSE IF ~demuxed.video THEN Fail("NoVideo") /\ calls' = calls
       ELSE IF ~existingUdp
            THEN /\ calls' = Append(calls, "createStream")
                 /\ pc' = "createStream"
                 /\ thrown' = thrown
            ELSE /\ calls' = calls \o <<"setSpeaking(false)", "setVideoAttributes(false)">>
                 /\ pc' = "delay"
                 /\ thrown' = thrown
    /\ UNCHANGED <<configVars, aborted, cleanupFuncs, cleanupRuns, cleanedUp,
                   streamPromise, listeners, vStream, aStream, burstReached, preview, lastFrame, ffmpeg>>

\* audioStreamInstance after the `if (audio)` block: constructed, linked to the
\* video stream and muted as configured only when the container has audio
audioStreamInstance_Mutant ==
    [NoAudio EXCEPT !.exists = TRUE,
                    !.syncStream = "video",
                    !.isMuted = mergedOptions.initialMuted,
                    !.noSleep = burstArmed]

audioStreamInstance ==
    IF demuxed.audio
    THEN [NoAudio EXCEPT !.exists = TRUE,
                         !.syncStream = "video",
                         !.isMuted = mergedOptions.initialMuted,
                         !.noSleep = burstArmed]
    ELSE aStream

\* the rest of playStream, run without suspension once the transport is there:
\* transport setup, the two streams, the sync pair, burst, preview start,
\* the cleanup action, the listeners, the returned handle
Wire ==
    /\ calls' = calls \o <<"setPacketizer", "setSpeaking(true)", "setVideoAttributes(true)">>
    /\ vStream' = [NoStream EXCEPT !.exists = TRUE,
                                   !.syncStream = IF demuxed.audio THEN "audio" ELSE "none",
                                   !.sync = ~burstArmed,
                                   !.noSleep = burstArmed]
    /\ aStream' = audioStreamInstance
    /\ preview' = [preview EXCEPT !.state =
                      IF mergedOptions.streamPreview /\ mergedOptions.type = "go-live"
                      THEN "creating" ELSE "off"]
    /\ cleanupFuncs' = Append(cleanupFuncs, "stopTransport")
    /\ streamPromise' = Pending
    /\ listeners' = [abort |-> hasSignal, finish |-> TRUE, verror |-> TRUE,
                     aerror |-> demuxed.audio, pts |-> burstArmed, data |-> FALSE]
    /\ pc' = "playing"
    /\ UNCHANGED <<configVars, aborted, thrown, cleanupRuns, cleanedUp, burstReached, lastFrame, ffmpeg>>

\* streamer.createStream() resolves
CreateStreamResolved ==
    /\ pc = "createStream"
    /\ Wire

\* delay(250) elapses
DelayElapsed ==
    /\ pc = "delay"
    /\ Wire

\* the object playStream returns once wired
audioController == IF aStream.exists THEN "audioStreamInstance" ELSE "undefined"

\* ------------------------------------------------ playStream, teardown
\* what cleanup() leaves behind: the flag, the run counts, the transport calls,
\* the decoder and the preview 'data' listener
cleanup ==
    IF cleanedUp
    THEN [cleanedUp |-> cleanedUp, runs |-> cleanupRuns, calls |-> calls,
          freed |-> preview.freed, data |-> listeners.data]
    ELSE [cleanedUp |-> TRUE,
          runs |-> [f \in CleanupNames |->
                       cleanupRuns[f] + (IF f \in Range(cleanupFuncs) THEN 1 ELSE 0)],
          calls |-> IF "stopTransport" \in Range(cleanupFuncs)
                    THEN calls \o <<"setSpeaking(false)", "setVideoAttributes(false)">>
                    ELSE calls,
          freed |-> preview.freed \/ "freeDecoder" \in Range(cleanupFuncs),
          data |-> listeners.data /\ "offData" \notin Range(cleanupFuncs)]

\* resolve() and reject() of a promise: the first settlement stays
Settle(p, status, value) ==
    IF p.status = "pending" THEN [status |-> status, value |-> value] ELSE p

\* cancelSignal?.reason
signalReason == IF hasSignal THEN Reason ELSE "undefined"

\* the .catch() handler on the stream promise: what `done` is for a state p of it
catchHandler_Mutant(p) == p

catchHandler_SwallowAll(p) ==
    CASE p.status = "rejected" -> [status |-> "resolved", value |-> "undefined"]
      [] OTHER -> p

catchHandler(p) ==
    CASE p.status = "rejected" ->
            IF p.value # signalReason THEN p
            ELSE [status |-> "resolved", value |-> "undefined"]
      [] OTHER -> p

\* the completion signal of the returned handle
done == catchHandler(streamPromise)

\* a handler that ends the session: cleanup(), then resolve() or reject(err);
\* ls is the listener record once the handler's own registration is consumed
Terminate(ls, status, value) ==
    /\ cleanedUp' = cleanup.cleanedUp
    /\ cleanupRuns' = cleanup.runs
    /\ calls' = cleanup.calls
    /\ preview' = [preview EXCEPT !.freed = cleanup.freed]
    /\ listeners' = [ls EXCEPT !.data = cleanup.data]
    /\ streamPromise' = Settle(streamPromise, status, value)

Ignore(ls) ==
    /\ listeners' = ls
    /\ UNCHANGED <<cleanedUp, cleanupRuns, calls, preview, streamPromise>>

\* the 'abort' listener
onAbort ==
    Terminate([listeners EXCEPT !.abort = FALSE], "rejected", Reason)

\* the 'finish' listener of vStream
onFinish_Mutant ==
    Terminate([listeners EXCEPT !.finish = FALSE], "resolved", "undefined")

onFinish ==
    IF hasSignal /\ aborted
    THEN Ignore([listeners EXCEPT !.finish = FALSE])
    ELSE Terminate([listeners EXCEPT !.finish = FALSE], "resolved", "undefined")

\* the 'error' listener of vStream
onVideoError(err) ==
    IF hasSignal /\ aborted
    THEN Ignore([listeners EXCEPT !.verror = FALSE])
    ELSE Terminate([listeners EXCEPT !.verror = FALSE], "rejected", err)

\* the 'error' listener of audio.stream
onAudioError(err) ==
    IF hasSignal /\ aborted
    THEN Ignore([listeners EXCEPT !.aerror = FALSE])
    ELSE Terminate([listeners EXCEPT !.aerror = FALSE], "rejected", err)

\* prepareStream's 'abort' listener, added with { once: true }: command.kill("SIGTERM")
onAbortKill(c) == [c EXCEPT !.sigterm = @ + 1, !.abortListener = FALSE]

\* cancelSignal aborts; the 'abort' listeners attached by then run once each
Abort ==
    /\ hasSignal
    /\ ~aborted
    /\ aborted' = TRUE
    /\ IF listeners.abort THEN onAbort ELSE Ignore(listeners)
    /\ ffmpeg' = IF ffmpeg.abortListener THEN onAbortKill(ffmpeg) ELSE ffmpeg
    /\ UNCHANGED <<configVars, pc, thrown, cleanupFuncs, vStream, aStream, burstReached,
                   lastFrame>>

\* vStream emits 'finish'
VideoFinish ==
    /\ pc = "playing"
    /\ vStream' = IF vStream.state = "Active"
                  THEN [vStream EXCEPT !.state = "Finished"] ELSE vStream
    /\ IF listeners.finish THEN onFinish ELSE Ignore(listeners)
    /\ UNCHANGED <<configVars, aborted, pc, thrown, cleanupFuncs, aStream, burstReached,
                   lastFrame, ffmpeg>>

\* vStream emits 'error'
VideoError(err) ==
    /\ pc = "playing"
    /\ vStream' = IF vStream.state = "Active"
                  THEN [vStream EXCEPT !.state = "Errored", !.error = err,
                                       !.live = ~aborted /\ streamPromise.status = "pending"]
                  ELSE vStream
    /\ IF listeners.verror THEN onVideoError(err) ELSE Ignore(listeners)
    /\ UNCHANGED <<configVars, aborted, pc, thrown, cleanupFuncs, aStream, burstReached,
                   lastFrame, ffmpeg>>

\* audio.stream, the demuxer's audio source, emits 'error'
AudioSourceError(err) ==
    /\ pc = "playing"
    /\ demuxed.audio
    /\ IF listeners.aerror THEN onAudioError(err) ELSE Ignore(listeners)
    /\ UNCHANGED <<configVars, aborted, pc, thrown, cleanupFuncs, vStream, aStream,
                   burstReached, lastFrame, ffmpeg>>

\* -------------------------------------------------------------- burst
\* the 'pts' listener; what it leaves of sync, noSleep and its own subscription
stopBurst_Mutant(pts) ==
    [sync |-> TRUE,
     vNoSleep |-> IF aStream.exists THEN FALSE ELSE vStream.noSleep,
     aNoSleep |-> IF aStream.exists THEN FALSE ELSE aStream.noSleep,
     on |-> FALSE]

stopBurst(pts) ==
    IF pts < burstThreshold
    THEN [sync |-> vStream.sync, vNoSleep |-> vStream.noSleep,
          aNoSleep |-> aStream.noSleep, on |-> listeners.pts]
    ELSE [sync |-> TRUE,
          vNoSleep |-> IF aStream.exists THEN FALSE ELSE vStream.noSleep,
          aNoSleep |-> IF aStream.exists THEN FALSE ELSE aStream.noSleep,
          on |-> FALSE]

\* vStream emits 'pts' with timestamp pts
VideoPts(pts) ==
    /\ pc = "playing"
    /\ vStream.state = "Active"
    /\ burstReached' = (burstReached \/ (burstArmed /\ pts >= burstThreshold))
    /\ IF listeners.pts
       THEN /\ vStream' = [vStream EXCEPT !.sync = stopBurst(pts).sync,
                                          !.noSleep = stopBurst(pts).vNoSleep]
            /\ aStream' = [aStream EXCEPT !.noSleep = stopBurst(pts).aNoSleep]
            /\ listeners' = [listeners EXCEPT !.pts = stopBurst(pts).on]
       ELSE UNCHANGED <<vStream, aStream, listeners>>
    /\ UNCHANGED <<configVars, aborted, pc, thrown, calls, cleanupFuncs, cleanupRuns,
                   cleanedUp, streamPromise, preview, lastFrame, ffmpeg>>

\* -------------------------------------------------------- AudioStream
mute(a) == [a EXCEPT !.isMuted = TRUE]

unmute(a) == [a EXCEPT !.isMuted = FALSE]

isMuted == aStream.isMuted

setVolume(a, volume) ==
    [a EXCEPT !.volume = IF JsLt(volume, Num(0)) THEN Num(0)
                         ELSE JsMin(volume, Num(2 * VolScale))]

getVolume == aStream.volume

\* Math.max(-32768, Math.min(32767, Math.floor(sample * volume))); a NaN volume
\* makes the product NaN, which Math.min and Math.max hand on
newSample_Mutant(sample, volume) ==
    IF volume.kind = "nan" THEN NaN
    ELSE Num((sample * volume.val) \div VolScale)

newSample(sample, volume) ==
    IF volume.kind = "nan" THEN NaN
    ELSE LET scaled == (sample * volume.val) \div VolScale
             capped == IF scaled > Int16Max THEN Int16Max ELSE scaled
         IN  Num(IF capped < Int16Min THEN Int16Min ELSE capped)

\* pcmData.writeInt16LE(value): throws outside the 16-bit range, stores NaN as 0
writeInt16LE(value) ==
    IF value.kind = "nan" THEN [ok |-> TRUE, sample |-> 0]
    ELSE IF value.val > Int16Max \/ value.val < Int16Min THEN [ok |-> FALSE, sample |-> 0]
    ELSE [ok |-> TRUE, sample |-> value.val]

\* the try block of _sendFrame: decode, scale every sample, encode; ok is false
\* when a step threw, decodes and encodes count the codec calls made
processFrame(a, frame, decodeOk, encodeOk) ==
    LET written == writeInt16LE(newSample(frame.sample, a.volume))
    IN  IF ~decodeOk THEN [ok |-> FALSE, sample |-> 0, decodes |-> 1, encodes |-> 0]
        ELSE IF ~written.ok THEN [ok |-> FALSE, sample |-> 0, decodes |-> 1, encodes |-> 0]
        ELSE [ok |-> encodeOk, sample |-> written.sample, decodes |-> 1, encodes |-> 1]

\* _sendFrame: the udp.sendAudioFrame calls one call makes, the payload and the
\* frametime it hands over, the codec calls it makes and whether it fails, given
\* whether decode, encode and the send succeed
sendFrame_Mutant(a, frame, decodeOk, encodeOk, sendOk) ==
    LET p == processFrame(a, frame, decodeOk, encodeOk)
    IN  IF a.volume # Num(VolScale)
        THEN [sends |-> 1,
              payload |-> IF p.ok THEN [kind |-> "reencoded", sample |-> p.sample]
                          ELSE [kind |-> "original", sample |-> frame.sample],
              frametime |-> frame.frametime,
              decodes |-> p.decodes, encodes |-> p.encodes, failed |-> ~sendOk]
        ELSE [sends |-> 1, payload |-> [kind |-> "original", sample |-> frame.sample],
              frametime |-> frame.frametime,
              decodes |-> 0, encodes |-> 0, failed |-> ~sendOk]

sendFrame_AlwaysProcess(a, frame, decodeOk, encodeOk, sendOk) ==
    LET p == processFrame(a, frame, decodeOk, encodeOk)
    IN  IF a.isMuted
        THEN [sends |-> 0, payload |-> NoPayload, frametime |-> 0,
              decodes |-> 0, encodes |-> 0, failed |-> FALSE]
        ELSE [sends |-> 1,
              payload |-> IF p.ok THEN [kind |-> "reencoded", sample |-> p.sample]
                          ELSE [kind |-> "original", sample |-> frame.sample],
              frametime |-> frame.frametime,
              decodes |-> p.decodes, encodes |-> p.encodes, failed |-> ~sendOk]

sendFrame_DropOnFault(a, frame, decodeOk, encodeOk, sendOk) ==
    LET p == processFrame(a, frame, decodeOk, encodeOk)
    IN  IF a.isMuted
        THEN [sends |-> 0, payload |-> NoPayload, frametime |-> 0,
              decodes |-> 0, encodes |-> 0, failed |-> FALSE]
        ELSE IF a.volume # Num(VolScale)
        THEN IF p.ok
             THEN [sends |-> 1, payload |-> [kind |-> "reencoded", sample |-> p.sample],
                   frametime |-> frame.frametime,
                   decodes |-> p.decodes, encodes |-> p.encodes, failed |-> ~sendOk]
             ELSE [sends |-> 0, payload |-> NoPayload, frametime |-> 0,
                   decodes |-> p.decodes, encodes |-> p.encodes, failed |-> TRUE]
        ELSE [sends |-> 1, payload |-> [kind |-> "original", sample |-> frame.sample],
              frametime |-> frame.frametime,
              decodes |-> 0, encodes |-> 0, failed |-> ~sendOk]

sendFrame(a, frame, decodeOk, encodeOk, sendOk) ==
    LET p == processFrame(a, frame, decodeOk, encodeOk)
    IN  IF a.isMuted
        THEN [sends |-> 0, payload |-> NoPayload, frametime |-> 0,
              decodes |-> 0, encodes |-> 0, failed |-> FALSE]
        ELSE IF a.volume # Num(VolScale)
        THEN [sends |-> 1,
              payload |-> IF p.ok THEN [kind |-> "reencoded", sample |-> p.sample]
                          ELSE [kind |-> "original", sample |-> frame.sample],
              frametime |-> frame.frametime,
              decodes |-> p.decodes, encodes |-> p.encodes, failed |-> ~sendOk]
        ELSE [sends |-> 1, payload |-> [kind |-> "original", sample |-> frame.sample],
              frametime |-> frame.frametime,
              decodes |-> 0, encodes |-> 0, failed |-> ~sendOk]

\* a paced stream whose frame dispatch failed enters Errored, once; live records
\* that the session was neither cancelled nor settled at that moment
dispatchFailed(a, err) ==
    [a EXCEPT !.state = "Errored", !.error = err,
              !.live = ~aborted /\ streamPromise.status = "pending"]

\* the caller uses the audioController of the returned handle
Mute ==
    /\ aStream.exists
    /\ aStream' = mute(aStream)
    /\ UNCHANGED <<configVars, aborted, pc, thrown, calls, cleanupFuncs, cleanupRuns,
                   cleanedUp, streamPromise, listeners, vStream, burstReached, preview, lastFrame, ffmpeg>>

Unmute ==
    /\ aStream.exists
    /\ aStream' = unmute(aStream)
    /\ UNCHANGED <<configVars, aborted, pc, thrown, calls, cleanupFuncs, cleanupRuns,
                   cleanedUp, streamPromise, listeners, vStream, burstReached, preview, lastFrame, ffmpeg>>

SetVolume(volume) ==
    /\ aStream.exists
    /\ aStream' = setVolume(aStream, volume)
    /\ UNCHANGED <<configVars, aborted, pc, thrown, calls, cleanupFuncs, cleanupRuns,
                   cleanedUp, streamPromise, listeners, vStream, burstReached, preview, lastFrame, ffmpeg>>

\* the audio stream dispatches one frame; a failed send puts the stream in Errored
\* (no listener of playStream is attached to audioStreamInstance)
SendFrame(frame, decodeOk, encodeOk, sendOk) ==
    /\ aStream.exists
    /\ aStream.state = "Active"
    /\ LET r == sendFrame(aStream, frame, decodeOk, encodeOk, sendOk)
       IN  /\ lastFrame' = [sent |-> TRUE, wasMuted |-> isMuted, volume |-> getVolume,
                            frame |-> frame,
                            decodeOk |-> (isMuted \/ getVolume = Num(VolScale) \/ decodeOk),
                            encodeOk |-> (isMuted \/ getVolume = Num(VolScale) \/ ~decodeOk
                                          \/ encodeOk),
                            sendOk |-> (isMuted \/ sendOk),
                            sends |-> r.sends, payload |-> r.payload,
                            frametime |-> r.frametime, decodes |-> r.decodes,
                            encodes |-> r.encodes, failed |-> r.failed]
           /\ aStream' = IF r.failed THEN dispatchFailed(aStream, "SendError") ELSE aStream
    /\ UNCHANGED <<configVars, aborted, pc, thrown, calls, cleanupFuncs, cleanupRuns,
                   cleanedUp, streamPromise, listeners, vStream, burstReached, preview,
                   ffmpeg>>

\* ------------------------------------------------------ stream preview
\* createDecoder resolves, with a decoder or without
CreateDecoderResolved(ok) ==
    /\ preview.state = "creating"
    /\ IF ok
       THEN /\ preview' = [preview EXCEPT !.state = "ready"]
            /\ cleanupFuncs' = cleanupFuncs \o <<"freeDecoder", "offData">>
            /\ listeners' = [listeners EXCEPT !.data = TRUE]
       ELSE /\ preview' = [preview EXCEPT !.state = "failed"]
            /\ UNCHANGED <<cleanupFuncs, listeners>>
    /\ UNCHANGED <<configVars, aborted, pc, thrown, calls, cleanupRuns, cleanedUp,
                   streamPromise, vStream, aStream, burstReached, lastFrame, ffmpeg>>

\* ------------------------------------------------------ prepareStream
\* the 'error' listener of the command: reject with the signal's reason when the
\* signal is aborted, with ffmpeg's error otherwise
onCommandError_Mutant(c, err) ==
    [c EXCEPT !.promise = Settle(c.promise, "rejected", err)]

onCommandError(c, err) ==
    [c EXCEPT !.promise = Settle(c.promise, "rejected",
                                 IF hasSignal /\ aborted THEN signalReason ELSE err)]

\* the 'end' listener of the command
onCommandEnd(c) ==
    [c EXCEPT !.promise = Settle(c.promise, "resolved", "undefined")]

\* prepareStream(input, options, cancelSignal): throwIfAborted first; otherwise the
\* command is built, the promise and its listeners are set up, the 'abort'
\* listener is added to the signal and command.run() starts ffmpeg
PrepareStream ==
    /\ ~ffmpeg.entered
    /\ ffmpeg' = IF hasSignal /\ aborted
                 THEN [ffmpeg EXCEPT !.entered = TRUE, !.abortedAtEntry = TRUE,
                                     !.thrown = signalReason]
                 ELSE [ffmpeg EXCEPT !.entered = TRUE, !.abortedAtEntry = FALSE,
                                     !.state = "running", !.promise = Pending,
                                     !.abortListener = hasSignal]
    /\ UNCHANGED <<configVars, aborted, pc, thrown, calls, cleanupFuncs, cleanupRuns, cleanedUp,
                   streamPromise, listeners, vStream, aStream, burstReached, preview, lastFrame>>

\* ffmpeg exits with an error, also after a SIGTERM; a command emits one of
\* 'error' and 'end', once
FfmpegError(err) ==
    /\ ffmpeg.state = "running"
    /\ ffmpeg' = [onCommandError(ffmpeg, err) EXCEPT
                     !.state = "errored",
                     !.event = [kind |-> "error", err |-> err, aborted |-> hasSignal /\ aborted]]
    /\ UNCHANGED <<configVars, aborted, pc, thrown, calls, cleanupFuncs, cleanupRuns, cleanedUp,
                   streamPromise, listeners, vStream, aStream, burstReached, preview, lastFrame>>

\* ffmpeg exits normally
FfmpegEnd ==
    /\ ffmpeg.state = "running"
    /\ ffmpeg' = [onCommandEnd(ffmpeg) EXCEPT
                     !.state = "ended",
                     !.event = [kind |-> "end", err |-> "none", aborted |-> hasSignal /\ aborted]]
    /\ UNCHANGED <<configVars, aborted, pc, thrown, calls, cleanupFuncs, cleanupRuns, cleanedUp,
                   streamPromise, listeners, vStream, aStream, burstReached, preview, lastFrame>>

\* ------------------------------------------------------ specification
\* the session: playStream, its listeners, the streams' events
SessionNext ==
    \/ PlayStreamEnter
    \/ DemuxResolved
    \/ CreateStreamResolved
    \/ DelayElapsed
    \/ Abort
    \/ VideoFinish
    \/ \E err \in Errors : VideoError(err)
    \/ \E err \in Errors : AudioSourceError(err)
    \/ \E pts \in PtsValues : VideoPts(pts)
    \/ \E frame \in SessionFrames, decodeOk \in BOOLEAN, encodeOk \in BOOLEAN,
          sendOk \in BOOLEAN : SendFrame(frame, decodeOk, encodeOk, sendOk)
    \/ \E ok \in BOOLEAN : CreateDecoderResolved(ok)

\* the AudioStream object on its own: the controller calls and frame dispatch
AudioNext ==
    \/ Mute
    \/ Unmute
    \/ \E volume \in Volumes : SetVolume(volume)
    \/ \E frame \in Frames, decodeOk \in BOOLEAN, encodeOk \in BOOLEAN,
          sendOk \in BOOLEAN : SendFrame(frame, decodeOk, encodeOk, sendOk)

Next ==
    \/ SessionNext
    \/ AudioNext
    \/ PrepareStream
    \/ FfmpegEnd
    \/ \E err \in Errors : FfmpegError(err)

\* the whole program: a session whose caller also uses the audio controller.
\* The session never reads isMuted or volume, so the session properties are
\* checked under SessionSpec and the AudioStream properties under AudioSpec.
Spec == Init /\ [][Next]_vars

\* a session whose caller leaves the audio controller alone
SessionSpec == Init /\ [][SessionNext]_vars

\* new AudioStream(udp, false, initialMuted), used without a session
AudioInit ==
    /\ options \in [readrateInitialBurst : {Undefined}, streamPreview : {FALSE},
                    type : {"go-live"}, initialMuted : BOOLEAN]
    /\ hasSignal = FALSE
    /\ aborted = FALSE
    /\ voiceConnection = TRUE
    /\ existingUdp = FALSE
    /\ demuxed = [video |-> TRUE, audio |-> TRUE]
    /\ pc = "idle"
    /\ thrown = "none"
    /\ calls = <<>>
    /\ cleanupFuncs = <<>>
    /\ cleanupRuns = [f \in CleanupNames |-> 0]
    /\ cleanedUp = FALSE
    /\ streamPromise = NoPromise
    /\ listeners = [abort |-> FALSE, finish |-> FALSE, verror |-> FALSE, aerror |-> FALSE,
                    pts |-> FALSE, data |-> FALSE]
    /\ vStream = NoStream
    /\ aStream = [NoAudio EXCEPT !.exists = TRUE, !.isMuted = options.initialMuted]
    /\ burstReached = FALSE
    /\ preview = [state |-> "off", freed |-> FALSE]
    /\ lastFrame = NoFrame
    /\ ffmpeg = NoCommand

AudioSpec == AudioInit /\ [][AudioNext]_vars

\* a session with audio whose caller uses the returned audioController while the
\* session runs and after it has ended
ControlInit ==
    /\ Init
    /\ options.readrateInitialBurst = Undefined
    /\ ~options.streamPreview
    /\ options.type = "go-live"
    /\ voiceConnection
    /\ demuxed = [video |-> TRUE, audio |-> TRUE]

ControlNext ==
    \/ PlayStreamEnter
    \/ DemuxResolved
    \/ CreateStreamResolved
    \/ DelayElapsed
    \/ Abort
    \/ VideoFinish
    \/ \E err \in Errors : VideoError(err)
    \/ Mute
    \/ Unmute
    \/ \E volume \in Volumes : SetVolume(volume)
    \/ \E frame \in SessionFrames, decodeOk \in BOOLEAN, encodeOk \in BOOLEAN,
          sendOk \in BOOLEAN : SendFrame(frame, decodeOk, encodeOk, sendOk)

ControlSpec == ControlInit /\ [][ControlNext]_vars

\* prepareStream and playStream on its output, both given the same cancelSignal
PipelineNext ==
    \/ PrepareStream
    \/ FfmpegEnd
    \/ \E err \in Errors : FfmpegError(err)
    \/ Abort
    \/ PlayStreamEnter
    \/ DemuxResolved
    \/ CreateStreamResolved
    \/ DelayElapsed
    \/ VideoFinish
    \/ \E err \in Errors : VideoError(err)

PipelineSpec == ControlInit /\ [][PipelineNext]_vars

\* -------------------------------------------------------------- claims
Settled(p) == p.status \in {"resolved", "rejected"}

\* how often a call appears in a sequence of calls
Count(name, log) == Cardinality({i \in DOMAIN log : log[i] = name})

\* the transport calls made after playStream set the speaking attribute
CallsSinceSetup ==
    LET at == {i \in DOMAIN calls : calls[i] = "setSpeaking(true)"}
    IN  IF at = {} THEN <<>>
        ELSE SubSeq(calls, (CHOOSE i \in at : \A j \in at : j <= i) + 1, Len(calls))

\* C1: every registered cleanup action is executed at most once, and exactly
\* once as soon as a trigger that may clean up has fired (cleanup() was entered).
C1_IdempotentTeardown ==
    \A f \in Range(cleanupFuncs) :
        /\ cleanupRuns[f] <= 1
        /\ cleanedUp => cleanupRuns[f] = 1

C3_ErroredRejects ==
    \A s \in {vStream, aStream} :
        (s.state = "Errored" /\ s.live) =>
            /\ cleanedUp
            /\ done = [status |-> "rejected", value |-> s.error]

\* every step of the session is taken once it stays possible: promises that
\* resolve run their continuation, emitted events reach their listeners
SessionFairness ==
    /\ WF_vars(PlayStreamEnter)
    /\ WF_vars(DemuxResolved)
    /\ WF_vars(CreateStreamResolved)
    /\ WF_vars(DelayElapsed)
    /\ WF_vars(Abort)
    /\ WF_vars(VideoFinish)
    /\ WF_vars(\E err \in Errors : VideoError(err))
    /\ WF_vars(\E err \in Errors : AudioSourceError(err))
    /\ WF_vars(\E pts \in PtsValues : VideoPts(pts))
    /\ WF_vars(\E frame \in SessionFrames, decodeOk \in BOOLEAN, encodeOk \in BOOLEAN,
                   sendOk \in BOOLEAN : SendFrame(frame, decodeOk, encodeOk, sendOk))
    /\ WF_vars(\E ok \in BOOLEAN : CreateDecoderResolved(ok))

FairSessionSpec == SessionSpec /\ SessionFairness

\* C4: once the signal has aborted during a playStream call, either playStream
\* fails with the cancellation reason or cleanup runs and `done` settles.
C4_CancelNeverBlocks ==
    (aborted /\ pc \in {"demux", "createStream", "delay", "playing"})
        ~> \/ pc = "failed" /\ thrown = Reason
           \/ cleanedUp /\ Settled(done)

\* C5: a 'finish' of the video stream with the signal not aborted and the stream
\* promise pending runs every registered cleanup action and resolves `done`; a
\* 'finish' with the signal aborted changes neither `done` nor the cleanup runs.
C5_Finish ==
    [][VideoFinish =>
        /\ (~aborted /\ streamPromise.status = "pending") =>
              /\ cleanedUp'
              /\ \A f \in Range(cleanupFuncs) :
                    cleanupRuns[f] = 0 /\ cleanupRuns'[f] = 1
              /\ catchHandler(streamPromise') = [status |-> "resolved", value |-> "undefined"]
        /\ aborted =>
              /\ catchHandler(streamPromise') = done
              /\ UNCHANGED <<cleanupRuns, cleanedUp, calls>>]_vars

C5_Witness ==
    /\ vStream.state = "Finished"
    /\ ~aborted
    /\ cleanedUp
    /\ cleanupRuns["stopTransport"] = 1
    /\ done = [status |-> "resolved", value |-> "undefined"]

\* which terminal path settled the stream promise
Outcome(p) ==
    CASE p.status = "resolved" -> "finish"
      [] p.status = "rejected" /\ p.value = Reason -> "cancel"
      [] p.status = "rejected" -> "failure"
      [] OTHER -> "none"

BurstDefaults ==
    /\ vStream.sync
    /\ ~vStream.noSleep
    /\ ~aStream.noSleep
    /\ ~listeners.pts

\* the flags as arming the burst leaves them, and the 'pts' listener subscribed
BurstFlagsArmed ==
    /\ ~vStream.sync
    /\ vStream.noSleep
    /\ aStream.exists => aStream.noSleep
    /\ listeners.pts

\* C7: with burst armed, sync stays false, noSleep stays true on both streams
\* and the listener stays subscribed until a 'pts' notification at or past the
\* threshold was emitted; from that notification on sync is true, noSleep is
\* false on both streams and the listener is unsubscribed, for good.
C7_BurstOneShot ==
    (pc = "playing" /\ demuxed.audio /\ options.readrateInitialBurst.kind = "num"
        /\ options.readrateInitialBurst.val > 0) =>
        IF burstReached
        THEN vStream.sync /\ ~vStream.noSleep /\ ~aStream.noSleep /\ ~listeners.pts
        ELSE ~vStream.sync /\ vStream.noSleep /\ aStream.noSleep /\ listeners.pts

C7_Witness ==
    /\ pc = "playing"
    /\ burstReached
    /\ vStream.sync
    /\ ~listeners.pts

\* C8 as claimed: playStream arms burst exactly when readrateInitialBurst is a
\* finite number >= 0, with or without an audio stream.
C8_BurstIffNonNegative ==
    (pc = "playing" /\ ~burstReached) =>
        IF options.readrateInitialBurst.kind = "num" /\ options.readrateInitialBurst.val >= 0
        THEN BurstFlagsArmed
        ELSE BurstDefaults

\* C8 amended: playStream arms burst exactly when an audio stream is present
\* and readrateInitialBurst is a finite number > 0; otherwise the flags keep
\* their construction defaults and no 'pts' listener is subscribed.
C8_BurstIffPositiveWithAudio ==
    (pc = "playing" /\ ~burstReached) =>
        IF demuxed.audio /\ options.readrateInitialBurst.kind = "num"
           /\ options.readrateInitialBurst.val > 0
        THEN BurstFlagsArmed /\ aStream.exists
        ELSE BurstDefaults

C8_Witness ==
    /\ pc = "playing"
    /\ ~burstReached
    /\ BurstFlagsArmed
    /\ aStream.noSleep

\* C9: a failed playStream failed with the error of its precondition and left
\* nothing behind: no streamer or transport call, no stream, no listener, no
\* cleanup action; and playStream gets past a test only if the test passed.
C9_NoPartialSession ==
    /\ [](pc = "failed" =>
            /\ thrown = "NotConnected" => ~voiceConnection
            /\ thrown = "NoVideo" => ~demuxed.video
            /\ thrown = Reason => hasSignal /\ aborted
            /\ thrown \in {"NotConnected", "NoVideo", Reason}
            /\ calls = <<>>
            /\ ~vStream.exists /\ ~aStream.exists
            /\ cleanupFuncs = <<>>
            /\ streamPromise = NoPromise
            /\ preview.state = "off"
            /\ \A l \in DOMAIN listeners : ~listeners[l])
    /\ [][/\ (pc = "idle" /\ (aborted \/ ~voiceConnection)) => pc' \in {"idle", "failed"}
          /\ (pc = "demux" /\ (aborted \/ ~demuxed.video)) => pc' \in {"demux", "failed"}]_vars

C9_Witness ==
    /\ pc = "failed"
    /\ thrown = "NoVideo"
    /\ voiceConnection
    /\ calls = <<>>

\* C10: mute() and unmute() are idempotent; a frame dispatched while muted made
\* no udp.sendAudioFrame call and did not fail; a frame dispatched while not
\* muted made exactly one udp.sendAudioFrame call.
C10_Mute ==
    /\ mute(aStream).isMuted
    /\ mute(mute(aStream)) = mute(aStream)
    /\ ~unmute(aStream).isMuted
    /\ unmute(unmute(aStream)) = unmute(aStream)
    /\ lastFrame.sent =>
          IF lastFrame.wasMuted
          THEN lastFrame.sends = 0 /\ ~lastFrame.failed
          ELSE lastFrame.sends = 1

C10_Witness ==
    /\ options.initialMuted
    /\ isMuted
    /\ getVolume # Num(VolScale)
    /\ lastFrame.sent
    /\ lastFrame.wasMuted
    /\ lastFrame.sends = 0

\* C11: after setVolume(v), for every numeric v (negative, zero, in range,
\* above 2.0, NaN, +Infinity, -Infinity), getVolume() lies in [0, 2.0]; it is 0
\* when v < 0, 2.0 when v > 2.0 and v when 0 <= v <= 2.0.
C11_VolumeClamp ==
    /\ getVolume.kind = "num"
    /\ getVolume.val >= 0
    /\ getVolume.val <= 2 * VolScale
    /\ \A v \in Volumes :
          LET after == setVolume(aStream, v).volume
          IN  /\ JsLt(v, Num(0)) => after = Num(0)
              /\ JsGt(v, Num(2 * VolScale)) => after = Num(2 * VolScale)
              /\ (v.kind = "num" /\ v.val >= 0 /\ v.val <= 2 * VolScale) => after = v

\* C12: a frame dispatched while not muted whose decode or re-encode threw was
\* handed to udp.sendAudioFrame exactly once, as the original payload with the
\* frame's own frametime; _sendFrame failed only when udp.sendAudioFrame failed.
C12_CodecFaultFallsBack ==
    /\ (lastFrame.sent /\ ~lastFrame.wasMuted /\ (~lastFrame.decodeOk \/ ~lastFrame.encodeOk)) =>
          /\ lastFrame.sends = 1
          /\ lastFrame.payload = [kind |-> "original", sample |-> lastFrame.frame.sample]
          /\ lastFrame.frametime = lastFrame.frame.frametime
    /\ (lastFrame.sent /\ lastFrame.failed) => (lastFrame.sends = 1 /\ ~lastFrame.sendOk)
    /\ (lastFrame.sent /\ ~lastFrame.wasMuted) => (lastFrame.failed <=> ~lastFrame.sendOk)

C12_Witness ==
    /\ lastFrame.sent
    /\ ~lastFrame.wasMuted
    /\ lastFrame.volume = Num(2 * VolScale)
    /\ lastFrame.decodeOk
    /\ ~lastFrame.encodeOk
    /\ lastFrame.frame = [sample |-> Int16Max, frametime |-> 40]
    /\ lastFrame.payload = [kind |-> "original", sample |-> Int16Max]
    /\ lastFrame.frametime = 40
    /\ ~lastFrame.failed
    /\ aStream.state = "Active"

\* C13: a frame dispatched while not muted and with getVolume() = 1.0 was handed
\* to udp.sendAudioFrame as the unchanged input payload with the input
\* frametime, and no decode or encode call was made for it.
C13_UnityIsIdentity ==
    (lastFrame.sent /\ ~lastFrame.wasMuted /\ lastFrame.volume = Num(VolScale)) =>
        /\ lastFrame.sends = 1
        /\ lastFrame.payload = [kind |-> "original", sample |-> lastFrame.frame.sample]
        /\ lastFrame.frametime = lastFrame.frame.frametime
        /\ lastFrame.decodes = 0
        /\ lastFrame.encodes = 0

C13_Witness ==
    /\ lastFrame.sent
    /\ ~lastFrame.wasMuted
    /\ lastFrame.volume = Num(VolScale)
    /\ lastFrame.frame = [sample |-> -16385, frametime |-> 40]
    /\ lastFrame.sends = 1
    /\ lastFrame.payload = [kind |-> "original", sample |-> -16385]
    /\ lastFrame.decodes = 0
    /\ getVolume = Num(0)

\* C14: the returned handle carries an audioController exactly when the
\* container has an audio elementary stream; in a session with video, without
\* audio and without a burst configured, the audioController is absent, no sync
\* partner is linked, no burst flag is changed, and `done` is resolved once the
\* video stream has finished.
C14_VideoOnly ==
    pc = "playing" =>
        /\ (audioController # "undefined") <=> demuxed.audio
        /\ (~demuxed.audio /\ options.readrateInitialBurst = Undefined) =>
              /\ audioController = "undefined"
              /\ vStream.syncStream = "none"
              /\ aStream.syncStream = "none"
              /\ BurstDefaults
              /\ (vStream.state = "Finished" /\ ~aborted) => done.status = "resolved"

C14_Witness ==
    /\ pc = "playing"
    /\ ~demuxed.audio
    /\ options.readrateInitialBurst = Undefined
    /\ audioController = "undefined"
    /\ vStream.state = "Finished"
    /\ vStream.syncStream = "none"
    /\ ~aborted
    /\ done.status = "resolved"
    /\ cleanedUp

\* C15: once the session's teardown has completed, mute(), unmute() and
\* setVolume() on the returned audioController are no-ops: isMuted() and
\* getVolume() keep the values they had at teardown and the calls cause no
\* transport call.
C15_InertAfterTeardown ==
    [][(cleanedUp /\ (Mute \/ Unmute \/ \E volume \in Volumes : SetVolume(volume))) =>
          /\ isMuted' = isMuted
          /\ getVolume' = getVolume
          /\ calls' = calls]_vars

\* the transport's attributes as the last setSpeaking / setVideoAttributes call left them
LastOf(names) ==
    LET at == {i \in DOMAIN calls : calls[i] \in names}
    IN  IF at = {} THEN "none" ELSE calls[CHOOSE i \in at : \A j \in at : j <= i]

speaking == LastOf({"setSpeaking(true)", "setSpeaking(false)"}) = "setSpeaking(true)"

videoAttributes == LastOf({"setVideoAttributes(true)", "setVideoAttributes(false)"}) = "setVideoAttributes(true)"

\* C16: in every state in which `done` has settled, resolved or rejected, the
\* cleanup actions have been executed in full, the transport's speaking
\* attribute is false and its video attributes are cleared.
C16_TeardownBeforeSettlement ==
    Settled(done) =>
        /\ cleanedUp
        /\ \A f \in Range(cleanupFuncs) : cleanupRuns[f] = 1
        /\ ~speaking
        /\ ~videoAttributes

\* C17: with audio present, after wiring the video stream's syncStream is the
\* audio stream and the audio stream's syncStream is the video stream; after
\* teardown, on any terminal path, both back-references are cleared.
C17_SyncPairLifecycle ==
    /\ (pc = "playing" /\ demuxed.audio /\ ~cleanedUp) =>
          (vStream.syncStream = "audio" /\ aStream.syncStream = "video")
    /\ cleanedUp =>
          (vStream.syncStream = "none" /\ aStream.syncStream = "none")

\* min(32767, max(-32768, floor(s * v))) for a sample s and a volume v
ClampedScale(s, v) ==
    LET scaled == (s * v.val) \div VolScale
        lower == IF scaled < Int16Min THEN Int16Min ELSE scaled
    IN  IF lower > Int16Max THEN Int16Max ELSE lower

\* every sample of the signed 16-bit range is written as its clamped scaling
ScalesWithinRange(v) ==
    \A s \in Int16Min..Int16Max :
        LET written == writeInt16LE(newSample(s, v))
        IN  /\ written.ok
            /\ written.sample = ClampedScale(s, v)
            /\ written.sample >= Int16Min
            /\ written.sample <= Int16Max

InRangeNotUnity(v) ==
    v.kind = "num" /\ v.val >= 0 /\ v.val <= 2 * VolScale /\ v # Num(VolScale)

\* C18: a frame dispatched while not muted, at a volume v in [0, 2.0] other than
\* 1.0, whose decode and encode succeeded, was sent re-encoded with its sample s
\* replaced by min(32767, max(-32768, floor(s * v))), a value within
\* [-32768, 32767]; at such a volume the same holds for every s of the signed
\* 16-bit range.
C18_ScaleSaturates ==
    /\ (lastFrame.sent /\ ~lastFrame.wasMuted /\ InRangeNotUnity(lastFrame.volume)
            /\ lastFrame.decodeOk /\ lastFrame.encodeOk) =>
          /\ lastFrame.payload.kind = "reencoded"
          /\ lastFrame.payload.sample = ClampedScale(lastFrame.frame.sample, lastFrame.volume)
          /\ lastFrame.payload.sample >= Int16Min
          /\ lastFrame.payload.sample <= Int16Max
          /\ lastFrame.decodes = 1
          /\ lastFrame.encodes = 1
    /\ (~lastFrame.sent /\ InRangeNotUnity(getVolume)) => ScalesWithinRange(getVolume)

C18_Witness ==
    /\ lastFrame.sent
    /\ ~lastFrame.wasMuted
    /\ lastFrame.volume = Num(2 * VolScale)
    /\ lastFrame.frame.sample = 16384
    /\ lastFrame.decodeOk
    /\ lastFrame.encodeOk
    /\ lastFrame.payload = [kind |-> "reencoded", sample |-> Int16Max]
    /\ ~lastFrame.failed

\* C19: prepareStream called with an already aborted signal throws the signal's
\* reason and never starts ffmpeg; otherwise ffmpeg is started and an abort sends
\* it SIGTERM exactly once; an 'error' of ffmpeg while the signal is aborted
\* rejects the returned promise with the signal's reason, an 'error' while it is
\* not aborted rejects it with ffmpeg's error, and 'end' resolves it.
C19_PrepareCancellation ==
    /\ (ffmpeg.entered /\ ffmpeg.abortedAtEntry) =>
          /\ ffmpeg.thrown = Reason
          /\ ffmpeg.state = "none"
          /\ ffmpeg.promise = NoPromise
          /\ ffmpeg.sigterm = 0
    /\ (ffmpeg.entered /\ ~ffmpeg.abortedAtEntry) =>
          /\ ffmpeg.thrown = "none"
          /\ ffmpeg.state # "none"
          /\ ffmpeg.sigterm = (IF aborted THEN 1 ELSE 0)
    /\ (ffmpeg.event.kind = "error" /\ ffmpeg.event.aborted) =>
          ffmpeg.promise = [status |-> "rejected", value |-> Reason]
    /\ (ffmpeg.event.kind = "error" /\ ~ffmpeg.event.aborted) =>
          ffmpeg.promise = [status |-> "rejected", value |-> ffmpeg.event.err]
    /\ ffmpeg.event.kind = "end" =>
          ffmpeg.promise = [status |-> "resolved", value |-> "undefined"]

C19_Witness ==
    /\ ffmpeg.entered
    /\ ~ffmpeg.abortedAtEntry
    /\ aborted
    /\ ffmpeg.sigterm = 1
    /\ ffmpeg.state = "errored"
    /\ ffmpeg.event = [kind |-> "error", err |-> "E1", aborted |-> TRUE]
    /\ ffmpeg.promise = [status |-> "rejected", value |-> Reason]

\* C20: the preview's cleanup actions are registered only once createDecoder has
\* resolved, and for every interleaving of that resolution with the terminal
\* triggers, once the session has torn down, a decoder that was created is
\* eventually freed and the preview's 'data' listener is eventually detached.
C20_PreviewCleanupNotLost ==
    /\ [](preview.state # "ready" =>
            ("freeDecoder" \notin Range(cleanupFuncs) /\ "offData" \notin Range(cleanupFuncs)))
    /\ (preview.state = "ready" /\ cleanedUp) ~> (preview.freed /\ ~listeners.data)

====
